---- MODULE Spec2Model ----
(***************************************************************************)
(* Model of the sandbox backend: the job routes (api/jobRoutes.js, the     *)
(* in-memory job store, submit / cancel / sweep and the asynchronous       *)
(* execution flow) and the sandbox manager (sandbox/sandboxManager.js:     *)
(* runJob, setupNetworkScenario, cleanupNetworkScenario, formatOutput).    *)
(*                                                                         *)
(* One action is one run-to-completion turn of the Node.js event loop: a   *)
(* handler or an await continuation together with the microtasks it        *)
(* schedules.  External services (filesystem, Docker daemon, Toxiproxy)    *)
(* answer each request with success or failure, chosen nondeterministically.*)
(***************************************************************************)
EXTENDS Integers, Sequences, FiniteSets, TLC

\* ------------------------------------------------------------------------
\* Bounds of the model
\* ------------------------------------------------------------------------
MaxJobs == 1
MaxSweeps == 2
MaxChunks == 1
MaxTextLen == 3
MaxCodeLen == 2

\* ------------------------------------------------------------------------
\* Captured text.  A text is a sequence of tokens; each token stands for a
\* piece of text that formatOutput tells apart.
\*   "a"      ordinary text            "nl"     '\n'
\*   "sp"     a blank                  "ctl"    \u0000 | \u0001 | \u0002
\*   "pip"    "WARNING: Running pip as the 'root' user"
\*   "INFO"   "INFO:root:"             "TO"     "[Timeout]"
\*   "NOTICE" "Execution timed out after 10 seconds."
\*   "{" "}"  braces                   "origin" '"origin"'
\* ------------------------------------------------------------------------
\* An intermediate value is bound as the element of a one-element set
\* ({F(x) : x \in {e}}), so that e is evaluated once.
TheOne(S) == CHOOSE r \in S : TRUE

Includes(s, t) == \E i \in DOMAIN s : s[i] = t

IndexOf(s, t) == CHOOSE i \in DOMAIN s : s[i] = t /\ \A k \in 1..(i-1) : s[k] # t

SubstringFrom(s, i) == SubSeq(s, i, Len(s))

RECURSIVE StripPipWarning(_)
\* .replace(/WARNING: Running pip as the 'root' user.*\n/g, '')
StripPipWarning(s) ==
    IF s = <<>> THEN <<>>
    ELSE IF Head(s) = "pip" /\ Includes(Tail(s), "nl")
         THEN TheOne({StripPipWarning(rest) :
                        rest \in {SubstringFrom(Tail(s), IndexOf(Tail(s), "nl") + 1)}})
         ELSE <<Head(s)>> \o TheOne({StripPipWarning(rest) : rest \in {Tail(s)}})

\* .replace(/\u0001|\u0002|\u0000/g, '')
StripControl(s) == SelectSeq(s, LAMBDA t : t # "ctl")

RECURSIVE SplitLines(_)
\* the lines of a text ('.' and '$' with the m flag stop at '\n')
SplitLines(s) ==
    IF ~Includes(s, "nl") THEN <<s>>
    ELSE <<SubSeq(s, 1, IndexOf(s, "nl") - 1)>>
         \o TheOne({SplitLines(rest) : rest \in {SubstringFrom(s, IndexOf(s, "nl") + 1)}})

\* one match of /INFO:root:.*$/gm with .replace('INFO:root:', ''): the rest
\* of the line after its first "INFO:root:"
LogLineBody(line) == SubstringFrom(line, IndexOf(line, "INFO") + 1)

\* formattedOutput.match(/INFO:root:.*$/gm).map(line => line.replace('INFO:root:', ''))
LogLines(s) ==
    TheOne({[k \in DOMAIN hits |-> LogLineBody(hits[k])] :
              hits \in {SelectSeq(SplitLines(s), LAMBDA l : Includes(l, "INFO"))}})

RECURSIVE JoinLines(_)
\* .join('\n')
JoinLines(ls) ==
    IF ls = <<>> THEN <<>>
    ELSE IF Len(ls) = 1 THEN ls[1]
    ELSE ls[1] \o <<"nl">> \o TheOne({JoinLines(rest) : rest \in {Tail(ls)}})

Whitespace == {"sp", "nl"}

\* String.prototype.trim
Trim(s) ==
    TheOne({IF keep = {} THEN <<>>
            ELSE SubSeq(s, CHOOSE i \in keep : \A k \in keep : i <= k,
                           CHOOSE i \in keep : \A k \in keep : i >= k) :
              keep \in {{i \in DOMAIN s : s[i] \notin Whitespace}}})

TimeoutSentinel == <<"nl", "TO">>
TimeoutNotice == <<"NOTICE", "nl">>
OriginPlaceholder == <<"{", "sp", "origin", "sp", "}">>

\* logLines.length > 0 ? logLines.map(...).join('\n') : formattedOutput
CollapseLogLines(s) ==
    IF Includes(s, "INFO")
    THEN TheOne({JoinLines(logLines) : logLines \in {LogLines(s)}})
    ELSE s

\* if (formattedOutput.includes('[Timeout]')) prepend the notice
PrependNotice(s) ==
    IF Includes(s, "TO") THEN TimeoutNotice \o s ELSE s

\* the truncated-JSON branch
FixTruncatedJson(s) ==
    IF Includes(s, "{") /\ ~Includes(s, "}")
          /\ Includes(SubstringFrom(s, IndexOf(s, "{")), "origin")
    THEN SubSeq(s, 1, IndexOf(s, "{") - 1) \o OriginPlaceholder
    ELSE s

formatOutput(output) ==
    TheOne({Trim(FixTruncatedJson(noticed)) :
              noticed \in {PrependNotice(collapsed) :
                 collapsed \in {CollapseLogLines(stripped) :
                    stripped \in {StripPipWarning(StripControl(output))}}}})

\* ------------------------------------------------------------------------
\* Fault injection into the user's code.  A program text is a sequence of
\* tokens: "stmt" a statement, "import requests" that very text, "nl" a line
\* break, and one token per generated fragment ("py." for the Python
\* fragments, "js." for the JavaScript ones).
\* ------------------------------------------------------------------------
JsLanguages == {"javascript", "node"}

\* the scenario {} : every field is undefined
EmptyScenario ==
    [artificialDelayMs |-> 0, simulateCrash |-> FALSE,
     simulateHighCpu |-> FALSE, simulateMemoryLeak |-> FALSE]

Fragment(language, name) ==
    IF language = "python" THEN <<"py." \o name>>
    ELSE IF language \in JsLanguages THEN <<"js." \o name>>
    ELSE <<>>

DelayFragment(scenario, language) ==
    IF scenario.artificialDelayMs # 0 THEN Fragment(language, "delay") ELSE <<>>

CrashFragment(scenario, language) ==
    IF scenario.simulateCrash THEN Fragment(language, "crash") ELSE <<>>

HighCpuFragment(scenario, language) ==
    IF scenario.simulateHighCpu THEN Fragment(language, "cpu") ELSE <<>>

MemoryLeakFragment(scenario, language) ==
    IF scenario.simulateMemoryLeak THEN Fragment(language, "leak") ELSE <<>>

InstallRequests == <<"py.pip install requests">>

\* wrapUserCode installing requests whatever the language
wrapUserCodeAnyLanguage(code, scenario, language) ==
    DelayFragment(scenario, language)
       \o HighCpuFragment(scenario, language)
       \o MemoryLeakFragment(scenario, language)
       \o (IF Includes(code, "import requests") THEN InstallRequests ELSE <<>>)
       \o code
       \o CrashFragment(scenario, language)

\* return pre + code + post
wrapUserCode(code, scenario, language) ==
    DelayFragment(scenario, language)
       \o HighCpuFragment(scenario, language)
       \o MemoryLeakFragment(scenario, language)
       \o (IF language = "python" /\ Includes(code, "import requests")
           THEN InstallRequests ELSE <<>>)
       \o code
       \o CrashFragment(scenario, language)

\* ------------------------------------------------------------------------
\* Inputs of a submission
\* ------------------------------------------------------------------------
Languages == {"python", "javascript", "node", "ruby"}

NoScenario == [networkLatencyMs |-> 0, bandwidthKbps |-> 0, timeoutMs |-> 0, upstream |-> ""]

Scenarios ==
    { NoScenario,
      [NoScenario EXCEPT !.networkLatencyMs = 1000, !.bandwidthKbps = 50],
      [NoScenario EXCEPT !.timeoutMs = 5000],
      [NoScenario EXCEPT !.upstream = "httpbin.org:80"] }

\* exit codes of the sandboxed program: success, and failure as forced by
\* simulateCrash (sys.exit(1) / process.exit(1))
ExitCodes == {0, 1}

\* chunks the attached stream can deliver
Chunks == { <<"a", "nl">>, <<"INFO", "a", "nl">> }

JobIds == 1..MaxJobs

\* ------------------------------------------------------------------------
\* Time.  Date.now() in milliseconds.
\* ------------------------------------------------------------------------
RetentionMs == 3600 * 1000
SweepIntervalMs == 3600 * 1000
NoTime == -1

\* ------------------------------------------------------------------------
\* Job records of the in-memory store
\* ------------------------------------------------------------------------
NoJob == [status |-> "absent"]
NoResult == [kind |-> "none"]

Terminal == {"completed", "failed", "cancelled"}

\* addJobLog: a no-op for an unknown id, otherwise appends the message
\* (the ISO timestamp prefix of the entry is not modelled)
addJobLog(js, jobId, message) ==
    IF js[jobId] = NoJob THEN js
    ELSE [js EXCEPT ![jobId].logs = Append(@, message)]

\* a log entry: the fixed text and, for a failure, the error's message
LogCreated == <<"Job created and queued.", "">>
LogStarted == <<"Job execution started.", "">>
LogCompleted == <<"Execution completed.", "">>
LogCancelled == <<"Job was cancelled by user.", "">>
LogFailed(m) == <<"Execution failed: ", m>>

NewJob(language, scenario) ==
    [status |-> "queued", language |-> language, scenario |-> scenario,
     logs |-> <<>>, result |-> NoResult, completedAt |-> NoTime]

\* FlowCompleted without the write of completedAt
FlowCompletedNoStamp(js, jobId, result, t) ==
    IF js[jobId] = NoJob THEN js
    ELSE addJobLog([js EXCEPT ![jobId].status = "completed",
                              ![jobId].result = [kind |-> "output", output |-> result.output]],
                   jobId, LogCompleted)

\* the try branch of the execution flow after `await runJob` resolved; with
\* the record gone, jobs[jobId].status = ... throws a TypeError, in the try
\* branch and again in the catch branch, and the store is left as it is
FlowCompleted(js, jobId, result, t) ==
    IF js[jobId] = NoJob THEN js
    ELSE addJobLog([js EXCEPT ![jobId].status = "completed",
                              ![jobId].completedAt = t,
                              ![jobId].result = [kind |-> "output", output |-> result.output]],
                   jobId, LogCompleted)

\* FlowFailed with the error's message replaced by a fixed text
FlowFailedGeneric(js, jobId, message, t) ==
    IF js[jobId] = NoJob THEN js
    ELSE addJobLog([js EXCEPT ![jobId].status = "failed",
                              ![jobId].completedAt = t,
                              ![jobId].result = [kind |-> "error", error |-> "Execution failed"]],
                   jobId, LogFailed(message))

\* the catch branch of the execution flow
FlowFailed(js, jobId, message, t) ==
    IF js[jobId] = NoJob THEN js
    ELSE addJobLog([js EXCEPT ![jobId].status = "failed",
                              ![jobId].completedAt = t,
                              ![jobId].result = [kind |-> "error", error |-> message]],
                   jobId, LogFailed(message))

\* ------------------------------------------------------------------------
\* Error messages of the external services
\* ------------------------------------------------------------------------
ErrUnsupported == "Unsupported language"
ErrWriteFile == "ENOSPC: no space left on device, write"
ErrCreateProxy == "toxiproxy: create proxy failed"
ErrAddToxic == "toxiproxy: add toxic failed"
ErrCreateContainer == "docker: create container failed"
ErrAttach == "docker: attach failed"
ErrStart == "docker: start failed"
ErrWait == "docker: wait failed"

\* ------------------------------------------------------------------------
\* State
\* ------------------------------------------------------------------------
VARIABLES
    jobs,      \* the job store: job id -> record, NoJob when the id is not in it
    run,       \* per job id, the runJob invocation: position and closure variables
    proxies,   \* names (by job id) of the proxies existing in Toxiproxy
    now,       \* Date.now()
    nextId,    \* number of ids handed out so far
    resp,      \* the HTTP response sent by the last turn, NoResp when it sent none
    pure       \* a call of a pure helper under study: its inputs and its result

vars == <<jobs, run, proxies, now, nextId, resp, pure>>

NoRun ==
    [pc |-> "idle",            \* the await the invocation is suspended at
     scenario |-> NoScenario,  \* job.scenario of the job object passed to runJob
     tmpDir |-> "none",        \* none | exists | removed
     proxyName |-> FALSE,      \* proxyName # null
     settled |-> "pending",    \* state of the promise runJob returned
     value |-> [kind |-> "none"],
     output |-> <<>>,          \* the closure variable output
     chunks |-> 0,             \* number of 'data' events delivered
     timer |-> "unset",        \* unset | armed | fired | cleared
     container |-> "none",     \* none | created | running | exited | killed
     exitCode |-> -1,          \* exit code of a program that ended on its own
     env |-> {},               \* names of the variables in the container's Env
     kill |-> "none",          \* none | sent | ok | failed
     unhandled |-> FALSE,      \* an unhandled rejection was raised
     created |-> 0,            \* proxies created by setupNetworkScenario
     deleted |-> 0]            \* proxies deleted by cleanupNetworkScenario

NoResp == [op |-> "none", id |-> 0, code |-> 0]
NoCall == [fn |-> "none"]

Init ==
    /\ jobs = [j \in JobIds |-> NoJob]
    /\ run = [j \in JobIds |-> NoRun]
    /\ proxies = {}
    /\ now = 0
    /\ nextId = 0
    /\ resp = NoResp
    /\ pure = NoCall


\* ------------------------------------------------------------------------
\* runJob: settling the returned promise and the finally block
\* ------------------------------------------------------------------------
Supported(language) == language \in {"python", "javascript", "node"}

\* the keys of proxyEnv once setupNetworkScenario has returned
ProxyEnv == {"HTTP_PROXY", "HTTPS_PROXY"}

\* NeedsProxy without the test of scenario.upstream
NeedsProxyForToxics(scenario) ==
    \/ scenario.networkLatencyMs # 0
    \/ scenario.bandwidthKbps # 0
    \/ scenario.timeoutMs # 0

\* the condition of step 5 of runJob
NeedsProxy(scenario) ==
    \/ scenario.networkLatencyMs # 0
    \/ scenario.bandwidthKbps # 0
    \/ scenario.timeoutMs # 0
    \/ scenario.upstream # ""

\* the await setupNetworkScenario suspends at once the proxy exists / a toxic is on
AfterBandwidth(scenario) ==
    IF scenario.timeoutMs # 0 THEN "addTimeout" ELSE "createContainer"
AfterLatency(scenario) ==
    IF scenario.bandwidthKbps # 0 THEN "addBandwidth" ELSE AfterBandwidth(scenario)
AfterCreateProxy(scenario) ==
    IF scenario.networkLatencyMs # 0 THEN "addLatency" ELSE AfterLatency(scenario)

Resolved(output, success) == [kind |-> "resolved", output |-> output, success |-> success]
Rejected(message) == [kind |-> "rejected", message |-> message]

\* resolve(v) / reject(e) on the promise of runJob: only the first call counts
Settle(r, v) ==
    IF r.settled = "pending" THEN [r EXCEPT !.settled = v.kind, !.value = v] ELSE r

\* the continuation of `await runJob(...)` in the execution flow, run as a
\* microtask of the turn that settled the promise
FlowAfter(js, jobId, r, v, t) ==
    IF r.settled # "pending" THEN js
    ELSE IF v.kind = "resolved" THEN FlowCompleted(js, jobId, v, t)
    ELSE FlowFailed(js, jobId, v.message, t)

\* the unhandled rejection of the execution flow when the record is gone
FlowEscapes(js, jobId, r) == r.settled = "pending" /\ js[jobId] = NoJob

\* finally { tmpDir.removeCallback(); if (proxyName) await cleanupNetworkScenario(proxyName); }
\* removeCallback throwing leaves the executor rejected (unhandled) before the cleanup
Finally(r, rmOk) ==
    IF rmOk
    THEN [r EXCEPT !.tmpDir = "removed",
                   !.pc = IF r.proxyName THEN "cleanup" ELSE "done"]
    ELSE [r EXCEPT !.pc = "done", !.unhandled = TRUE]

\* one turn that settles the promise with v and then runs the finally block
SettleAndFinally(j, v, rmOk) ==
    /\ run' = [run EXCEPT ![j] =
                 [Finally(Settle(run[j], v), rmOk) EXCEPT
                     !.unhandled = @ \/ FlowEscapes(jobs, j, run[j])]]
    /\ jobs' = FlowAfter(jobs, j, run[j], v, now)

\* runJob rejects before the promise executor is entered (no finally block)
RejectEarly(j, message) ==
    /\ run' = [run EXCEPT ![j] =
                 [Settle(run[j], Rejected(message)) EXCEPT
                     !.pc = "done",
                     !.unhandled = @ \/ FlowEscapes(jobs, j, run[j])]]
    /\ jobs' = FlowAfter(jobs, j, run[j], Rejected(message), now)

\* ------------------------------------------------------------------------
\* POST /run
\* ------------------------------------------------------------------------
SubmitInvalid ==
    /\ resp' = [op |-> "run", id |-> 0, code |-> 400]
    /\ UNCHANGED <<jobs, run, proxies, now, nextId, pure>>

\* Submit that leaves the status write and the start of the flow's body undone:
\* the record stays queued while runJob goes on
SubmitLeavesQueued(language, scenario) ==
    /\ nextId < MaxJobs
    /\ LET j == nextId + 1
           queued == addJobLog([jobs EXCEPT ![j] = NewJob(language, scenario)], j, LogCreated)
           started == [NoRun EXCEPT !.tmpDir = "exists", !.scenario = scenario]
       IN  /\ nextId' = j
           /\ resp' = [op |-> "run", id |-> j, code |-> 200]
           /\ IF Supported(language)
              THEN /\ jobs' = queued
                   /\ run' = [run EXCEPT ![j] = [started EXCEPT !.pc = "writeFile"]]
              ELSE /\ jobs' = FlowAfter(queued, j, started, Rejected(ErrUnsupported), now)
                   /\ run' = [run EXCEPT ![j] =
                                [Settle(started, Rejected(ErrUnsupported)) EXCEPT !.pc = "done"]]
    /\ UNCHANGED <<proxies, now, pure>>

Submit(language, scenario) ==
    /\ nextId < MaxJobs
    /\ LET j == nextId + 1
           queued == addJobLog([jobs EXCEPT ![j] = NewJob(language, scenario)], j, LogCreated)
           running == addJobLog([queued EXCEPT ![j].status = "running"], j, LogStarted)
           started == [NoRun EXCEPT !.tmpDir = "exists", !.scenario = scenario]
       IN  /\ nextId' = j
           /\ resp' = [op |-> "run", id |-> j, code |-> 200]
           /\ IF Supported(language)
              THEN /\ jobs' = running
                   /\ run' = [run EXCEPT ![j] = [started EXCEPT !.pc = "writeFile"]]
              ELSE /\ jobs' = FlowAfter(running, j, started, Rejected(ErrUnsupported), now)
                   /\ run' = [run EXCEPT ![j] =
                                [Settle(started, Rejected(ErrUnsupported)) EXCEPT !.pc = "done"]]
    /\ UNCHANGED <<proxies, now, pure>>

\* ------------------------------------------------------------------------
\* runJob, one action per await
\* ------------------------------------------------------------------------
\* await fs.writeFile(codeFile, userCode)
WriteFileDone(j, ok) ==
    /\ run[j].pc = "writeFile"
    /\ IF ~ok THEN RejectEarly(j, ErrWriteFile)
       ELSE /\ run' = [run EXCEPT ![j].pc =
                         IF NeedsProxy(run[j].scenario) THEN "staleDelete" ELSE "createContainer"]
            /\ jobs' = jobs
    /\ resp' = NoResp
    /\ UNCHANGED <<proxies, now, nextId, pure>>


\* setupNetworkScenario: try { await toxiproxy.deleteProxy(proxyName); } catch {}
StaleDeleteDone(j, ok) ==
    /\ run[j].pc = "staleDelete"
    /\ run' = [run EXCEPT ![j].pc = "createProxy"]
    /\ proxies' = IF ok THEN proxies \ {j} ELSE proxies
    /\ resp' = NoResp
    /\ UNCHANGED <<jobs, now, nextId, pure>>

\* setupNetworkScenario: await toxiproxy.createProxy({...})
CreateProxyDone(j, ok) ==
    /\ run[j].pc = "createProxy"
    /\ IF ~ok THEN RejectEarly(j, ErrCreateProxy) /\ proxies' = proxies
       ELSE /\ proxies' = proxies \cup {j}
            /\ LET next == AfterCreateProxy(run[j].scenario)
               IN  run' = [run EXCEPT ![j].created = @ + 1,
                                      ![j].pc = next,
                                      ![j].proxyName = (next = "createContainer")]
            /\ jobs' = jobs
    /\ resp' = NoResp
    /\ UNCHANGED <<now, nextId, pure>>

\* setupNetworkScenario: await proxy.addToxic({...}), latency, bandwidth, timeout
AddToxicDone(j, ok) ==
    /\ run[j].pc \in {"addLatency", "addBandwidth", "addTimeout"}
    /\ IF ~ok THEN RejectEarly(j, ErrAddToxic)
       ELSE /\ LET next == CASE run[j].pc = "addLatency" -> AfterLatency(run[j].scenario)
                             [] run[j].pc = "addBandwidth" -> AfterBandwidth(run[j].scenario)
                             [] OTHER -> "createContainer"
               IN  run' = [run EXCEPT ![j].pc = next,
                                      ![j].proxyName = (next = "createContainer")]
            /\ jobs' = jobs
    /\ resp' = NoResp
    /\ UNCHANGED <<proxies, now, nextId, pure>>

\* await docker.createContainer({...})
CreateContainerDone(j, ok, rmOk) ==
    /\ run[j].pc = "createContainer"
    /\ IF ~ok THEN SettleAndFinally(j, Rejected(ErrCreateContainer), rmOk)
       ELSE /\ run' = [run EXCEPT ![j].pc = "attach", ![j].container = "created",
                                  ![j].env = IF run[j].proxyName THEN ProxyEnv ELSE {}]
            /\ jobs' = jobs
    /\ resp' = NoResp
    /\ UNCHANGED <<proxies, now, nextId, pure>>

\* await container.attach({...}); stream.on('data', ...)
AttachDone(j, ok, rmOk) ==
    /\ run[j].pc = "attach"
    /\ IF ~ok THEN SettleAndFinally(j, Rejected(ErrAttach), rmOk)
       ELSE /\ run' = [run EXCEPT ![j].pc = "start"]
            /\ jobs' = jobs
    /\ resp' = NoResp
    /\ UNCHANGED <<proxies, now, nextId, pure>>

\* await container.start(); setTimeout(..., 10000); container.wait() is issued
StartDone(j, ok, rmOk) ==
    /\ run[j].pc = "start"
    /\ IF ~ok THEN SettleAndFinally(j, Rejected(ErrStart), rmOk)
       ELSE /\ run' = [run EXCEPT ![j].pc = "wait", ![j].container = "running",
                                  ![j].timer = "armed"]
            /\ jobs' = jobs
    /\ resp' = NoResp
    /\ UNCHANGED <<proxies, now, nextId, pure>>

\* stream.on('data', chunk => output += chunk.toString())
StreamData(j, chunk) ==
    /\ run[j].container = "running"
    /\ run[j].chunks < MaxChunks
    /\ run' = [run EXCEPT ![j].output = @ \o chunk, ![j].chunks = @ + 1]
    /\ resp' = NoResp
    /\ UNCHANGED <<jobs, proxies, now, nextId, pure>>

\* the sandboxed program ends on its own, with some exit code
ContainerExit(j, code) ==
    /\ run[j].container = "running"
    /\ run' = [run EXCEPT ![j].container = "exited", ![j].exitCode = code]
    /\ resp' = NoResp
    /\ UNCHANGED <<jobs, proxies, now, nextId, pure>>

\* the setTimeout callback starts: container.kill() is issued
TimerFire(j) ==
    /\ run[j].timer = "armed"
    /\ run' = [run EXCEPT ![j].timer = "fired", ![j].kill = "sent"]
    /\ resp' = NoResp
    /\ UNCHANGED <<jobs, proxies, now, nextId, pure>>

\* the Docker daemon handles the kill request: it fails on a container that
\* is not running, and may fail on a running one
KillHandled(j, ok) ==
    /\ run[j].kill = "sent"
    /\ IF ok /\ run[j].container = "running"
       THEN run' = [run EXCEPT ![j].kill = "ok", ![j].container = "killed"]
       ELSE run' = [run EXCEPT ![j].kill = "failed"]
    /\ resp' = NoResp
    /\ UNCHANGED <<jobs, proxies, now, nextId, pure>>

\* KillReturn resolving with the timeout output whether or not the kill worked
KillReturnAnyway(j) ==
    /\ run[j].kill \in {"ok", "failed"}
    /\ LET output == run[j].output \o TimeoutSentinel
           v == Resolved(formatOutput(output), FALSE)
       IN  /\ run' = [run EXCEPT ![j] =
                        [Settle(run[j], v) EXCEPT
                            !.kill = "returned", !.output = output,
                            !.unhandled = @ \/ FlowEscapes(jobs, j, run[j])]]
           /\ jobs' = FlowAfter(jobs, j, run[j], v, now)
    /\ resp' = NoResp
    /\ UNCHANGED <<proxies, now, nextId, pure>>

\* the setTimeout callback after `await container.kill()`; a rejected kill
\* ends the callback with an unhandled rejection
KillReturn(j) ==
    /\ run[j].kill \in {"ok", "failed"}
    /\ IF run[j].kill = "failed"
       THEN /\ run' = [run EXCEPT ![j].kill = "returned", ![j].unhandled = TRUE]
            /\ jobs' = jobs
       ELSE LET output == run[j].output \o TimeoutSentinel
                v == Resolved(formatOutput(output), FALSE)
            IN  /\ run' = [run EXCEPT ![j] =
                             [Settle(run[j], v) EXCEPT
                                 !.kill = "returned", !.output = output,
                                 !.unhandled = @ \/ FlowEscapes(jobs, j, run[j])]]
                /\ jobs' = FlowAfter(jobs, j, run[j], v, now)
    /\ resp' = NoResp
    /\ UNCHANGED <<proxies, now, nextId, pure>>

\* WaitReturn reporting a non-zero exit code as an unsuccessful run
WaitReturnByExitCode(j, rmOk) ==
    /\ run[j].pc = "wait"
    /\ run[j].container \in {"exited", "killed"}
    /\ LET v == Resolved(formatOutput(run[j].output), run[j].exitCode = 0)
       IN  /\ run' = [run EXCEPT ![j] =
                        [Finally(Settle(run[j], v), rmOk) EXCEPT
                            !.timer = IF @ = "armed" THEN "cleared" ELSE @,
                            !.unhandled = @ \/ FlowEscapes(jobs, j, run[j])]]
           /\ jobs' = FlowAfter(jobs, j, run[j], v, now)
    /\ resp' = NoResp
    /\ UNCHANGED <<proxies, now, nextId, pure>>

\* await container.wait() returns once the container has stopped;
\* clearTimeout(timeout); resolve({..., success: true}); finally
WaitReturn(j, rmOk) ==
    /\ run[j].pc = "wait"
    /\ run[j].container \in {"exited", "killed"}
    /\ LET v == Resolved(formatOutput(run[j].output), TRUE)
       IN  /\ run' = [run EXCEPT ![j] =
                        [Finally(Settle(run[j], v), rmOk) EXCEPT
                            !.timer = IF @ = "armed" THEN "cleared" ELSE @,
                            !.unhandled = @ \/ FlowEscapes(jobs, j, run[j])]]
           /\ jobs' = FlowAfter(jobs, j, run[j], v, now)
    /\ resp' = NoResp
    /\ UNCHANGED <<proxies, now, nextId, pure>>

\* await container.wait() rejects: catch { reject(err) } finally {...};
\* the timer is left armed
WaitFail(j, rmOk) ==
    /\ run[j].pc = "wait"
    /\ SettleAndFinally(j, Rejected(ErrWait), rmOk)
    /\ resp' = NoResp
    /\ UNCHANGED <<proxies, now, nextId, pure>>

\* CleanupDone with the deletion's failure recorded as the job's failure
CleanupDonePropagates(j, ok) ==
    /\ run[j].pc = "cleanup"
    /\ run' = [run EXCEPT ![j].pc = "done",
                          ![j].deleted = IF ok /\ j \in proxies THEN @ + 1 ELSE @]
    /\ proxies' = IF ok THEN proxies \ {j} ELSE proxies
    /\ jobs' = IF ok THEN jobs ELSE FlowFailed(jobs, j, "deleteProxy failed", now)
    /\ resp' = NoResp
    /\ UNCHANGED <<now, nextId, pure>>

\* cleanupNetworkScenario: try { await toxiproxy.deleteProxy(proxyName); } catch {}
CleanupDone(j, ok) ==
    /\ run[j].pc = "cleanup"
    /\ run' = [run EXCEPT ![j].pc = "done",
                          ![j].deleted = IF ok /\ j \in proxies THEN @ + 1 ELSE @]
    /\ proxies' = IF ok THEN proxies \ {j} ELSE proxies
    /\ resp' = NoResp
    /\ UNCHANGED <<jobs, now, nextId, pure>>

\* ------------------------------------------------------------------------
\* POST /cancel/:jobId
\* ------------------------------------------------------------------------
\* Cancel without the check of the job's status
CancelAnyStatus(jobId) ==
    /\ IF jobs[jobId] = NoJob
       THEN /\ resp' = [op |-> "cancel", id |-> jobId, code |-> 404]
            /\ jobs' = jobs
       ELSE /\ jobs' = addJobLog([jobs EXCEPT ![jobId].status = "cancelled",
                                              ![jobId].completedAt = now],
                                 jobId, LogCancelled)
            /\ resp' = [op |-> "cancel", id |-> jobId, code |-> 200]
    /\ UNCHANGED <<run, proxies, now, nextId, pure>>

\* Cancel that also stops the execution: kills the container, disarms the timer
CancelStopsExecution(jobId) ==
    /\ IF jobs[jobId] = NoJob
       THEN /\ resp' = [op |-> "cancel", id |-> jobId, code |-> 404]
            /\ jobs' = jobs
            /\ run' = run
       ELSE IF jobs[jobId].status # "queued" /\ jobs[jobId].status # "running"
       THEN /\ resp' = [op |-> "cancel", id |-> jobId, code |-> 400]
            /\ jobs' = jobs
            /\ run' = run
       ELSE /\ jobs' = addJobLog([jobs EXCEPT ![jobId].status = "cancelled",
                                              ![jobId].completedAt = now],
                                 jobId, LogCancelled)
            /\ resp' = [op |-> "cancel", id |-> jobId, code |-> 200]
            /\ run' = [run EXCEPT ![jobId].container =
                                      IF @ = "running" THEN "killed" ELSE @,
                                  ![jobId].timer =
                                      IF @ = "armed" THEN "cleared" ELSE @]
    /\ UNCHANGED <<proxies, now, nextId, pure>>

Cancel(jobId) ==
    /\ IF jobs[jobId] = NoJob
       THEN /\ resp' = [op |-> "cancel", id |-> jobId, code |-> 404]
            /\ jobs' = jobs
       ELSE IF jobs[jobId].status # "queued" /\ jobs[jobId].status # "running"
       THEN /\ resp' = [op |-> "cancel", id |-> jobId, code |-> 400]
            /\ jobs' = jobs
       ELSE /\ jobs' = addJobLog([jobs EXCEPT ![jobId].status = "cancelled",
                                              ![jobId].completedAt = now],
                                 jobId, LogCancelled)
            /\ resp' = [op |-> "cancel", id |-> jobId, code |-> 200]
    /\ UNCHANGED <<run, proxies, now, nextId, pure>>

\* ------------------------------------------------------------------------
\* The periodic sweep.  The setInterval callback runs once per retention
\* window; the clock is read at the granularity of these callbacks, so time
\* advances by one window with each sweep.
\* ------------------------------------------------------------------------
\* Expired with the boundary included (>= for >)
ExpiredInclusive(job, t) == job.completedAt # NoTime /\ t - job.completedAt >= RetentionMs

Expired(job, t) == job.completedAt # NoTime /\ t - job.completedAt > RetentionMs

Sweep ==
    /\ now < MaxSweeps * SweepIntervalMs
    /\ now' = now + SweepIntervalMs
    /\ jobs' = [j \in JobIds |->
                  IF jobs[j] # NoJob /\ Expired(jobs[j], now') THEN NoJob ELSE jobs[j]]
    /\ resp' = NoResp
    /\ UNCHANGED <<run, proxies, nextId, pure>>

\* ------------------------------------------------------------------------
\* Specification
\* ------------------------------------------------------------------------
Next ==
    \/ SubmitInvalid
    \/ \E language \in Languages, scenario \in Scenarios : Submit(language, scenario)
    \/ \E j \in JobIds, ok \in BOOLEAN : WriteFileDone(j, ok)
    \/ \E j \in JobIds, ok \in BOOLEAN : StaleDeleteDone(j, ok)
    \/ \E j \in JobIds, ok \in BOOLEAN : CreateProxyDone(j, ok)
    \/ \E j \in JobIds, ok \in BOOLEAN : AddToxicDone(j, ok)
    \/ \E j \in JobIds, ok \in BOOLEAN, rmOk \in BOOLEAN : CreateContainerDone(j, ok, rmOk)
    \/ \E j \in JobIds, ok \in BOOLEAN, rmOk \in BOOLEAN : AttachDone(j, ok, rmOk)
    \/ \E j \in JobIds, ok \in BOOLEAN, rmOk \in BOOLEAN : StartDone(j, ok, rmOk)
    \/ \E j \in JobIds, chunk \in Chunks : StreamData(j, chunk)
    \/ \E j \in JobIds, code \in ExitCodes : ContainerExit(j, code)
    \/ \E j \in JobIds : TimerFire(j)
    \/ \E j \in JobIds, ok \in BOOLEAN : KillHandled(j, ok)
    \/ \E j \in JobIds : KillReturn(j)
    \/ \E j \in JobIds, rmOk \in BOOLEAN : WaitReturn(j, rmOk)
    \/ \E j \in JobIds, rmOk \in BOOLEAN : WaitFail(j, rmOk)
    \/ \E j \in JobIds, ok \in BOOLEAN : CleanupDone(j, ok)
    \/ \E j \in JobIds : Cancel(j)
    \/ Sweep

Spec == Init /\ [][Next]_vars


\* The continuation runJob is suspended at (the positions exclude one
\* another) and the steps of the timer callback (they follow one another).
FlowStep(j) ==
    \/ \E ok \in BOOLEAN : WriteFileDone(j, ok)
    \/ \E ok \in BOOLEAN : StaleDeleteDone(j, ok)
    \/ \E ok \in BOOLEAN : CreateProxyDone(j, ok)
    \/ \E ok \in BOOLEAN : AddToxicDone(j, ok)
    \/ \E ok \in BOOLEAN, rmOk \in BOOLEAN : CreateContainerDone(j, ok, rmOk)
    \/ \E ok \in BOOLEAN, rmOk \in BOOLEAN : AttachDone(j, ok, rmOk)
    \/ \E ok \in BOOLEAN, rmOk \in BOOLEAN : StartDone(j, ok, rmOk)
    \/ \E rmOk \in BOOLEAN : WaitReturn(j, rmOk)
    \/ \E ok \in BOOLEAN : CleanupDone(j, ok)

TimerStep(j) ==
    \/ TimerFire(j)
    \/ \E ok \in BOOLEAN : KillHandled(j, ok)
    \/ KillReturn(j)

\* The scheduling of Node.js: every pending callback runs, every request to
\* an external service is answered, an armed timer fires.  Nothing makes the
\* sandboxed program end, a request fail, or a client call an endpoint.
Fairness ==
    \A j \in JobIds : WF_vars(FlowStep(j)) /\ WF_vars(TimerStep(j))

FairSpec == Spec /\ Fairness

\* ------------------------------------------------------------------------
\* The pure helpers on their own: a call is drawn from bounded inputs, then
\* the helper is applied to it.  The server's state takes no part.
\* ------------------------------------------------------------------------
TextTokens ==
    {"a", "nl", "sp", "ctl", "pip", "INFO", "TO", "NOTICE", "{", "}", "origin"}

CodeTokens == {"stmt", "import requests", "nl"}

SeqsUpTo(S, n) == UNION {[1..k -> S] : k \in 0..n}

InjectScenarios ==
    [artificialDelayMs : {0, 500}, simulateCrash : BOOLEAN,
     simulateHighCpu : BOOLEAN, simulateMemoryLeak : BOOLEAN]

FormatCalls ==
    {[fn |-> "formatOutput", n |-> 0, prev |-> x, y |-> x] :
        x \in SeqsUpTo(TextTokens, MaxTextLen)}

WrapCalls ==
    {[fn |-> "wrapUserCode", n |-> 0, code |-> c, scenario |-> sc,
      language |-> l, y |-> c] :
        c \in SeqsUpTo(CodeTokens, MaxCodeLen), sc \in InjectScenarios,
        l \in Languages}

PureInit ==
    /\ jobs = [j \in JobIds |-> NoJob]
    /\ run = [j \in JobIds |-> NoRun]
    /\ proxies = {}
    /\ now = 0
    /\ nextId = 0
    /\ resp = NoResp
    /\ pure \in FormatCalls \cup WrapCalls

\* y = formatOutput(prev), applied to the previous result at most twice
ApplyFormatOutput ==
    /\ pure.fn = "formatOutput"
    /\ pure.n < 2
    /\ pure' = [pure EXCEPT !.n = @ + 1, !.prev = pure.y, !.y = formatOutput(pure.y)]
    /\ UNCHANGED <<jobs, run, proxies, now, nextId, resp>>

\* y = wrapUserCode(code, scenario, language)
ApplyWrapUserCode ==
    /\ pure.fn = "wrapUserCode"
    /\ pure.n = 0
    /\ pure' = [pure EXCEPT !.n = 1,
                            !.y = wrapUserCode(pure.code, pure.scenario, pure.language)]
    /\ UNCHANGED <<jobs, run, proxies, now, nextId, resp>>

PureNext ==
    \/ ApplyFormatOutput
    \/ ApplyWrapUserCode

PureSpec == PureInit /\ [][PureNext]_vars

\* ------------------------------------------------------------------------
\* Properties
\* ------------------------------------------------------------------------
Present(j) == jobs[j] # NoJob
Cancelled(j) == \E i \in DOMAIN jobs[j].logs : jobs[j].logs[i] = LogCancelled
HasFailedLog(j) == \E i \in DOMAIN jobs[j].logs : jobs[j].logs[i][1] = LogFailed("")[1]

LegalTransition(s, t) ==
    \/ s = t
    \/ s = "queued" /\ t \in {"running", "cancelled"}
    \/ s = "running" /\ t \in {"completed", "failed", "cancelled"}

\* C1: a job's status only moves queued -> running -> {completed | failed}
\* or {queued | running} -> cancelled, and never leaves a terminal status.
StatusMonotonic ==
    [][\A j \in JobIds :
          (Present(j) /\ jobs'[j] # NoJob)
              => LegalTransition(jobs[j].status, jobs'[j].status)]_vars

\* C2: once a job's status is terminal, no step changes its completedAt or
\* its result.
WrittenOnce ==
    [][\A j \in JobIds :
          (Present(j) /\ jobs'[j] # NoJob /\ jobs[j].status \in Terminal)
              => /\ jobs'[j].completedAt = jobs[j].completedAt
                 /\ jobs'[j].result = jobs[j].result]_vars

\* C3: once a job's run has finished, whatever its outcome, no proxy created
\* for it remains in the fault-injection service and each created proxy was
\* deleted exactly once by the teardown.
TeardownGuarantee ==
    \A j \in JobIds :
        run[j].pc = "done" => (j \notin proxies /\ run[j].deleted = run[j].created)

\* C4: a run that created a temporary directory has removed it when it has
\* finished, on every exit path.
TmpDirRemoved ==
    \A j \in JobIds :
        (run[j].pc = "done" /\ run[j].tmpDir # "none") => run[j].tmpDir = "removed"

\* C5: when the timer's kill ended the container and the wait returned, run
\* resolves with success = false and an output containing the sentinel, in
\* whichever order the kill's and the wait's continuations run.
TimeoutResolvesUnsuccessful ==
    \A j \in JobIds :
        (/\ run[j].container = "killed"
         /\ run[j].settled # "pending"
         /\ run[j].value # Rejected(ErrWait))
            => /\ run[j].value.kind = "resolved"
               /\ ~run[j].value.success
               /\ Includes(run[j].value.output, "TO")

\* C6: when run fails with the unsupported-language error, no temporary
\* directory has been created and no proxy operation has been issued.
UnsupportedBeforeResources ==
    \A j \in JobIds :
        run[j].value = Rejected(ErrUnsupported)
            => (run[j].tmpDir = "none" /\ run[j].created = 0 /\ j \notin proxies)

\* C7: under fair scheduling of the execution flow and of the timer, every
\* running job eventually reaches a terminal status.
EventuallyTerminal ==
    \A j \in JobIds :
        (Present(j) /\ jobs[j].status = "running")
            ~> (~Present(j) \/ jobs[j].status \in Terminal)

\* C8: for a job that is not cancelled, when run rejects with an error the
\* job has status failed, result {error: m} with m the error's message,
\* completedAt set and a log entry recording the failure with that message.
RejectionRecorded ==
    \A j \in JobIds :
        (Present(j) /\ run[j].settled = "rejected" /\ ~Cancelled(j))
            => /\ jobs[j].status = "failed"
               /\ jobs[j].result = [kind |-> "error", error |-> run[j].value.message]
               /\ jobs[j].completedAt # NoTime
               /\ jobs[j].logs[Len(jobs[j].logs)] = LogFailed(run[j].value.message)

RejectionRecordedWitness ==
    \E j \in JobIds :
        /\ Present(j) /\ ~Cancelled(j)
        /\ run[j].value = Rejected(ErrWait)
        /\ jobs[j].status = "failed"
        /\ jobs[j].result = [kind |-> "error", error |-> ErrWait]

\* C9: a job whose execution was ended by the wall-clock timeout (the
\* timer's kill ended the container and the wait returned) ends as
\* completed, with a result {output} containing the sentinel, and without an
\* 'Execution failed' log entry.
TimeoutNotFailure ==
    \A j \in JobIds :
        (/\ Present(j)
         /\ run[j].container = "killed"
         /\ run[j].settled # "pending"
         /\ run[j].value # Rejected(ErrWait))
            => /\ jobs[j].status = "completed"
               /\ jobs[j].result.kind = "output"
               /\ Includes(jobs[j].result.output, "TO")
               /\ ~HasFailedLog(j)

\* C10: cancel on a queued or running job sets status cancelled, sets
\* completedAt and appends exactly one cancellation log entry; cancel on a
\* terminal job is answered 400 and leaves the job unchanged; cancel on an
\* unknown id is answered 404 and changes no job.
CancelContract ==
    [][\A j \in JobIds :
          (resp'.op = "cancel" /\ resp'.id = j)
              => IF ~Present(j)
                 THEN resp'.code = 404 /\ jobs' = jobs
                 ELSE IF jobs[j].status \in {"queued", "running"}
                 THEN /\ resp'.code = 200
                      /\ jobs'[j].status = "cancelled"
                      /\ jobs'[j].completedAt # NoTime
                      /\ jobs'[j].logs = Append(jobs[j].logs, LogCancelled)
                      /\ jobs'[j].result = jobs[j].result
                 ELSE resp'.code = 400 /\ jobs' = jobs]_vars

CancelContractWitness ==
    \E j \in JobIds :
        /\ resp = [op |-> "cancel", id |-> j, code |-> 400]
        /\ Present(j) /\ jobs[j].status = "cancelled"
        /\ run[j].pc = "wait"


\* C11: each sweep removes every record whose completedAt is set and older
\* than the retention window at the time of the sweep, and removes no record
\* whose completedAt is absent or within the retention window; the records
\* it keeps are left as they are.
SweepContract ==
    [][now' # now =>
          \A j \in JobIds :
              Present(j) =>
                  /\ jobs'[j] = NoJob <=>
                        (/\ jobs[j].completedAt # NoTime
                         /\ now' - jobs[j].completedAt > RetentionMs)
                  /\ jobs'[j] # NoJob => jobs'[j] = jobs[j]]_vars

\* a record was swept, and before that it survived the sweep at which its
\* age equalled the retention window
SweepContractWitness ==
    \E j \in JobIds :
        /\ j <= nextId
        /\ ~Present(j)
        /\ now = 2 * SweepIntervalMs

\* C12: sanitize is idempotent: applying it to an already sanitized text
\* gives that text again, for every captured text, including texts with the
\* timeout sentinel, with "INFO:root:" log lines or with truncated JSON.
SanitizeIdempotent ==
    (pure.fn = "formatOutput" /\ pure.n = 2) => pure.y = pure.prev

\* C13 as stated: with the scenario {} inject returns the code unchanged,
\* for every language and every code, code with 'import requests' included.
InjectIdentity ==
    (pure.fn = "wrapUserCode" /\ pure.n = 1 /\ pure.scenario = EmptyScenario)
        => pure.y = pure.code

\* C13: with the scenario {} inject returns the code unchanged, except for
\* Python code that includes 'import requests': there it returns the code
\* preceded by the fragment that installs requests, and nothing else.
InjectIdentityUnlessRequests ==
    (pure.fn = "wrapUserCode" /\ pure.n = 1 /\ pure.scenario = EmptyScenario)
        => pure.y = IF pure.language = "python"
                         /\ Includes(pure.code, "import requests")
                      THEN InstallRequests \o pure.code
                      ELSE pure.code

InjectIdentityWitness ==
    /\ pure.fn = "wrapUserCode"
    /\ pure.n = 1
    /\ pure.scenario = EmptyScenario
    /\ pure.language = "javascript"
    /\ Includes(pure.code, "import requests")
    /\ pure.y = pure.code

\* C14: a failure of the proxy deletion during teardown never changes the
\* job's outcome: when the teardown's deleteProxy call returns, with success
\* or with failure, the promise of run is already settled and the step
\* changes neither the promise, nor the job's record, nor raises an error
\* out of run.
TeardownFailureSwallowed ==
    [][\A j \in JobIds :
          (run[j].pc = "cleanup" /\ run'[j].pc # "cleanup") =>
              /\ run[j].settled # "pending"
              /\ run'[j].settled = run[j].settled
              /\ run'[j].value = run[j].value
              /\ run'[j].unhandled = run[j].unhandled
              /\ jobs' = jobs]_vars

TeardownFailureSwallowedWitness ==
    \E j \in JobIds :
        /\ run[j].pc = "done"
        /\ run[j].proxyName
        /\ run[j].tmpDir = "removed"
        /\ j \in proxies
        /\ run[j].settled = "resolved"
        /\ Present(j)
        /\ jobs[j].status = "completed"

\* C15: cancel changes only the job's record, and of it only status,
\* completedAt and logs: the step leaves the run of the job (container,
\* timer, temporary directory, position of the flow) and the proxies as they
\* were, so the flow goes on from the same position to its exit or timeout
\* and to its cleanup.
CancelFrame ==
    [][resp'.op = "cancel" =>
          /\ run' = run
          /\ proxies' = proxies
          /\ \A j \in JobIds :
                /\ j # resp'.id => jobs'[j] = jobs[j]
                /\ Present(j) =>
                      jobs'[j] = [jobs[j] EXCEPT !.status = jobs'[j].status,
                                                 !.completedAt = jobs'[j].completedAt,
                                                 !.logs = jobs'[j].logs]]_vars

\* a job that was cancelled, and whose run nevertheless went on to the end of
\* the container, removed the directory and deleted the proxy
CancelFrameWitness ==
    \E j \in JobIds :
        /\ Present(j)
        /\ Cancelled(j)
        /\ run[j].pc = "done"
        /\ run[j].container \in {"exited", "killed"}
        /\ run[j].tmpDir = "removed"
        /\ run[j].proxyName
        /\ run[j].deleted > 0
        /\ j \notin proxies

\* C16: when the container ended on its own and the timer has not fired, the
\* return of container.wait() resolves run with success = true and the
\* sanitized output, whatever the program's exit code, and a job that is
\* not cancelled then has status completed and a result {output}.
NaturalExitSucceeds ==
    [][\A j \in JobIds :
          (/\ run[j].pc = "wait"
           /\ run[j].container = "exited"
           /\ run[j].timer = "armed"
           /\ run'[j].pc # "wait"
           /\ run'[j].value # Rejected(ErrWait)) =>
              /\ run'[j].settled = "resolved"
              /\ run'[j].value = Resolved(formatOutput(run[j].output), TRUE)
              /\ (Present(j) /\ ~Cancelled(j)) =>
                    /\ jobs'[j].status = "completed"
                    /\ jobs'[j].result =
                          [kind |-> "output", output |-> run'[j].value.output]]_vars

\* a program that ended with a non-zero exit code before the timer fired
NaturalExitSucceedsWitness ==
    \E j \in JobIds :
        /\ run[j].container = "exited"
        /\ run[j].exitCode = 1
        /\ run[j].timer = "cleared"
        /\ run[j].settled = "resolved"
        /\ run[j].value.success
        /\ Present(j)
        /\ ~Cancelled(j)
        /\ jobs[j].status = "completed"

\* C17: whenever a job's status is completed or failed, the proxy that was
\* provisioned for the job (setupNetworkScenario returned its name) has
\* already been deleted.  (Stated for runs whose finally block removed the
\* temporary directory, i.e. went on to the proxy's teardown.)
ProxyGoneWhenTerminal ==
    \A j \in JobIds :
        (/\ Present(j)
         /\ jobs[j].status \in {"completed", "failed"}
         /\ run[j].proxyName
         /\ run[j].tmpDir = "removed") => j \notin proxies

ProvisioningPcs == {"staleDelete", "createProxy", "addLatency", "addBandwidth", "addTimeout"}

\* C18: within one run the steps come in a fixed order.  Proxy provisioning
\* is entered only from the successful write of the source file, and no
\* proxy is created or deleted outside provisioning and teardown; the
\* container is created only from the end of provisioning (with every toxic
\* of the scenario added) and is absent throughout provisioning; the promise
\* is resolved with the sanitized output only once the container has ended,
\* by its own exit or by the kill.
StepOrder ==
    [][\A j \in JobIds :
          /\ (run'[j].pc \in ProvisioningPcs /\ run[j].pc \notin ProvisioningPcs) =>
                (run[j].pc = "writeFile" /\ run'[j].settled = "pending")
          /\ ((j \in proxies') # (j \in proxies) \/ run'[j].created # run[j].created
                 \/ run'[j].deleted # run[j].deleted) =>
                run[j].pc \in ProvisioningPcs \cup {"cleanup"}
          /\ run'[j].pc \in ProvisioningPcs => run'[j].container = "none"
          /\ (run[j].container = "none" /\ run'[j].container # "none") =>
                /\ run[j].pc = "createContainer"
                /\ NeedsProxy(run[j].scenario) =>
                      (run[j].proxyName /\ run[j].created = 1 /\ j \in proxies)
          /\ (run[j].settled = "pending" /\ run'[j].settled = "resolved") =>
                /\ run[j].container \in {"exited", "killed"}
                /\ run'[j].value.output = formatOutput(run'[j].output)]_vars

\* a run that staged, provisioned a proxy with toxics, ran a container to
\* the timeout's kill and resolved with the sanitized output
StepOrderWitness ==
    \E j \in JobIds :
        /\ run[j].scenario.networkLatencyMs # 0
        /\ run[j].proxyName
        /\ run[j].container = "killed"
        /\ run[j].settled = "resolved"
        /\ Includes(run[j].value.output, "NOTICE")

\* C19: a proxy is provisioned for a run exactly when its scenario sets one
\* of networkLatencyMs, bandwidthKbps, timeoutMs, upstream.  With none set
\* the run never creates or deletes a proxy, is never at a proxy operation
\* and its container gets no proxy variables; with one set, a container
\* exists only with the proxy created and with both proxy variables.
ProxyIffNetworkScenario ==
    \A j \in JobIds :
        IF \/ run[j].scenario.networkLatencyMs # 0
           \/ run[j].scenario.bandwidthKbps # 0
           \/ run[j].scenario.timeoutMs # 0
           \/ run[j].scenario.upstream # ""
        THEN run[j].container # "none" =>
                /\ run[j].created = 1
                /\ run[j].proxyName
                /\ run[j].env = {"HTTP_PROXY", "HTTPS_PROXY"}
        ELSE /\ j \notin proxies
             /\ run[j].created = 0
             /\ run[j].deleted = 0
             /\ ~run[j].proxyName
             /\ run[j].pc \notin ProvisioningPcs \cup {"cleanup"}
             /\ run[j].env = {}

\* a scenario that sets only upstream: the proxy was created and the
\* container started with the proxy variables
ProxyIffNetworkScenarioWitness ==
    \E j \in JobIds :
        /\ run[j].scenario.upstream # ""
        /\ run[j].scenario.networkLatencyMs = 0
        /\ run[j].scenario.bandwidthKbps = 0
        /\ run[j].scenario.timeoutMs = 0
        /\ run[j].container = "running"
        /\ j \in proxies
        /\ run[j].env # {}

\* C20: every record of the store has completedAt set exactly when its
\* status is completed, failed or cancelled; a completed record has a
\* result {output}, a failed one a result {error}, and a queued, running or
\* cancelled one has no result.
RecordInvariant ==
    \A j \in JobIds :
        Present(j) =>
            /\ jobs[j].completedAt # NoTime <=> jobs[j].status \in Terminal
            /\ jobs[j].status = "completed" => jobs[j].result.kind = "output"
            /\ jobs[j].status = "failed" => jobs[j].result.kind = "error"
            /\ jobs[j].status \in {"queued", "running", "cancelled"} =>
                  jobs[j].result = NoResult

\* a record cancelled while its run goes on, and not yet overwritten
RecordInvariantWitness ==
    \E j \in JobIds :
        /\ Present(j)
        /\ jobs[j].status = "cancelled"
        /\ jobs[j].completedAt # NoTime
        /\ jobs[j].result = NoResult
        /\ run[j].pc = "wait"

\* C21: submission creates the record and moves it from queued to running
\* within one turn: no state between two turns holds a record with status
\* queued, every record's log starts with the 'created and queued' entry
\* followed at once by the 'execution started' entry, and the status
\* running is written only by the turn that creates the record, hence never
\* to a record that is already cancelled.
SubmitAtomic ==
    [][\A j \in JobIds :
          /\ jobs'[j] # NoJob =>
                /\ jobs'[j].status # "queued"
                /\ Len(jobs'[j].logs) >= 2
                /\ jobs'[j].logs[1] = LogCreated
                /\ jobs'[j].logs[2] = LogStarted
          /\ (Present(j) /\ jobs'[j] # NoJob /\ jobs'[j].status = "running") =>
                jobs[j].status = "running"]_vars

\* the state right after a submission was answered
SubmitAtomicWitness ==
    \E j \in JobIds :
        /\ resp = [op |-> "run", id |-> j, code |-> 200]
        /\ Present(j)
        /\ jobs[j].status = "running"
        /\ jobs[j].logs = <<LogCreated, LogStarted>>
        /\ run[j].pc = "writeFile"

\* C22: once run has settled and its cleanup has started, the timer's
\* callback never runs: the timer fires only while run is still waiting on
\* the container.
TimerDisarmedOnSettle ==
    [][\A j \in JobIds :
          (run[j].timer = "armed" /\ run'[j].timer = "fired") =>
              (run[j].pc = "wait" /\ run[j].settled = "pending")]_vars

\* C23: the sweep never deletes a record whose execution flow is still
\* active: when a record leaves the store, the run of its job has settled.
\* (Stated for a run that has outlived its timer: the kill was rejected, the
\* callback has ended and run still waits on the container.)
SweepSparesActiveFlow ==
    [][\A j \in JobIds :
          (/\ Present(j)
           /\ jobs'[j] = NoJob
           /\ run[j].pc = "wait"
           /\ run[j].kill = "returned") => run[j].settled # "pending"]_vars

====
